---- MODULE Spec2Model ----
\* Model of backend/clarity.py: the in-memory session store (SESSIONS), the
\* non-streaming handler chat, the streaming handler _chat_stream_impl with its
\* generators gen and err_gen, and reset.
\*
\* A text (Python str) is a sequence of atoms; an atom is a literal piece of a
\* string ("x", " ", a fixed phrase). Concatenation is \o. A Python list object
\* lives in heap under an object id, so that two references to one list (the
\* store's and a handler's local hist) see each other's appends.
EXTENDS Integers, Sequences, FiniteSets, TLC

\* ---------------------------------------------------------------- bounds
MaxOps == 3
MaxLiveOps == 2
MaxFrags == 2
NCalls == 2

\* ---------------------------------------------------------------- config
MAX_HISTORY_MESSAGES == 4

SYSTEM_PROMPT == <<"You are Clarity Coach">>

Calls == 1 .. NCalls
Sids == {"default", "s1"}
NoSid == "<absent>"
ReqSids == {NoSid, "", "s1"}
Msgs == {<<"A">>, <<"B">>}
StreamMsgs == {<<"C">>}
Errs == {<<"timeout">>}
NoErr == <<>>
Whitespace == {" ", "\n"}
RawReplies == {<<"x">>, <<" ", "y", " ">>}
\* a streamed chunk's delta content: <<>> is absent/None, <<t>> is the str t
Chunks == {<<>>, << <<>> >>, << <<"x">> >>, << <<" ">> >>}

NoObj == 0
ObjIds == 1 .. (Cardinality(Sids) + NCalls + 1)

\* ---------------------------------------------------------------- state
VARIABLES
  apiKey,       \* openai.api_key is set
  SESSIONS,     \* session id -> list object id (NoObj: key not in the dict)
  heap,         \* list object id -> its turns
  pc,           \* where each request is
  req,          \* each call's local sid and its request's message
  hist,         \* local hist: a reference to a list object
  messages,     \* local messages: the context built for the upstream
  reply_parts,  \* gen's local reply_parts
  events,       \* what the caller has been sent on the stream, in order
  reply,        \* what /chat returned to the caller
  upCalls,      \* times each call invoked the upstream completion service
  upContext,    \* the context the upstream was handed by each call
  received,     \* the chunks the upstream delivered in each streaming call
  upRaised,     \* the error the upstream raised in each call (NoErr: none)
  finalized,    \* how many times the finally block of gen ran in each call
  before,       \* the session's stored turns when the call started
  log,          \* the last two completed operations, newest last
  nops          \* number of operations started

store == <<SESSIONS, heap>>
locals == <<req, hist, messages, reply_parts, before>>
outputs == <<events, reply>>
upstream == <<upCalls, upContext, received, upRaised>>
vars == <<apiKey, SESSIONS, heap, pc, req, hist, messages, reply_parts, events,
          reply, upCalls, upContext, received, upRaised, finalized, before, log, nops>>

\* ---------------------------------------------------------------- helpers
Turn(r, c) == [role |-> r, content |-> c]

LastN(s, n) == IF Len(s) <= n THEN s ELSE SubSeq(s, Len(s) - n + 1, Len(s))

\* mutant of Trim: hist[:MAX_HISTORY_MESSAGES], the oldest turns are kept
TrimKeepsOldest(h) ==
  IF Len(h) <= MAX_HISTORY_MESSAGES THEN h ELSE SubSeq(h, 1, MAX_HISTORY_MESSAGES)

\* mutant of Trim: hist[-(MAX_HISTORY_MESSAGES - 1):], an odd window
TrimOdd(h) == LastN(h, MAX_HISTORY_MESSAGES - 1)

\* hist[-MAX_HISTORY_MESSAGES:]
Trim(h) == LastN(h, MAX_HISTORY_MESSAGES)

\* [{"role": "system", ...}, *trimmed]
Context(trimmed) == <<Turn("system", SYSTEM_PROMPT)>> \o trimmed

\* req.session_id or "default"
Sid(r) == IF r.session_id \in {NoSid, ""} THEN "default" ELSE r.session_id

RECURSIVE LStrip(_)
LStrip(t) == IF t # <<>> /\ Head(t) \in Whitespace THEN LStrip(Tail(t)) ELSE t

RECURSIVE RStrip(_)
RStrip(t) ==
  IF t # <<>> /\ t[Len(t)] \in Whitespace THEN RStrip(SubSeq(t, 1, Len(t) - 1)) ELSE t

\* str.strip()
Strip(t) == RStrip(LStrip(t))

\* "".join(parts)
RECURSIVE Join(_)
Join(parts) == IF parts = <<>> THEN <<>> ELSE Head(parts) \o Join(Tail(parts))

\* delta.get("content") if delta else None, then `if token:`
Truthy(chunk) == chunk # <<>> /\ chunk[1] # <<>>

MissingKeyReply == <<"Server missing OPENAI_API_KEY.">>

\* f"... Upstream error: {e}"
Fallback(e) == <<"Upstream error: ">> \o e

HEARTBEAT == <<": heartbeat", "\n", "\n">>
DONE == <<"data: ", "[DONE]", "\n", "\n">>

\* f"data: {token}\n\n"
Frame(token) == <<"data: ">> \o token \o <<"\n", "\n">>

\* the turns a reader of the store gets for session s
Content(s) == IF SESSIONS[s] = NoObj THEN <<>> ELSE heap[SESSIONS[s]]

\* ---------------------------------------------------------------- heap
Refs(S, h) == {S[s] : s \in Sids} \cup {h[c] : c \in Calls}

\* a list object that nothing references
Fresh(S, h) == CHOOSE o \in ObjIds : o \notin Refs(S, h) /\ \A p \in ObjIds : p \notin Refs(S, h) => o <= p

\* unreferenced list objects are collected
Collect(hp, S, h) == [o \in ObjIds |-> IF o \in Refs(S, h) THEN hp[o] ELSE <<>>]

Over == {"returned", "closed"}

NoReq == [message |-> <<>>, sid |-> ""]

Init ==
  /\ apiKey \in BOOLEAN
  /\ SESSIONS = [s \in Sids |-> NoObj]
  /\ heap = [o \in ObjIds |-> <<>>]
  /\ pc = [c \in Calls |-> "idle"]
  /\ req = [c \in Calls |-> NoReq]
  /\ hist = [c \in Calls |-> NoObj]
  /\ messages = [c \in Calls |-> <<>>]
  /\ reply_parts = [c \in Calls |-> <<>>]
  /\ events = [c \in Calls |-> <<>>]
  /\ reply = [c \in Calls |-> <<>>]
  /\ upCalls = [c \in Calls |-> 0]
  /\ upContext = [c \in Calls |-> <<>>]
  /\ received = [c \in Calls |-> <<>>]
  /\ upRaised = [c \in Calls |-> NoErr]
  /\ finalized = [c \in Calls |-> 0]
  /\ before = [c \in Calls |-> <<>>]
  /\ log = <<>>
  /\ nops = 0


\* ---------------------------------------------------------------- operations
Push(rec) == LastN(log \o <<rec>>, 2)

Rec(op, r, rep, bef) ==
  [op |-> op, sid |-> r.sid, message |-> r.message, reply |-> rep, before |-> bef]

\* the log keeps the details of /chat calls only
Other(op) == [op |-> op, sid |-> "", message |-> <<>>, reply |-> <<>>, before |-> <<>>]

\* sid = req.session_id or "default"
Local(r) == [message |-> r.message, sid |-> Sid(r)]

\* SESSIONS.setdefault(session_id, []): the dict after the call
session_history(s) ==
  IF SESSIONS[s] = NoObj THEN [SESSIONS EXCEPT ![s] = Fresh(SESSIONS, hist)] ELSE SESSIONS

\* a request arrives and is bound to the handler's parameters
Accept(c, r) ==
  /\ req' = [req EXCEPT ![c] = Local(r)]
  /\ before' = [before EXCEPT ![c] = Content(Sid(r))]
  /\ nops' = nops + 1

\* mutant of AppendUser: messages = [system, *hist], nothing is cut
AppendUserUntrimmed(c, r) ==
  LET s == Sid(r)
      S1 == session_history(s)
      o == S1[s]
      h1 == heap[o] \o <<Turn("user", r.message)>>
  IN /\ SESSIONS' = S1
     /\ heap' = [heap EXCEPT ![o] = h1]
     /\ hist' = [hist EXCEPT ![c] = o]
     /\ messages' = [messages EXCEPT ![c] = Context(h1)]

\* lines 90-95 and 129-135: hist = session_history(sid); hist.append(user turn);
\* trimmed = hist[-MAX_HISTORY_MESSAGES:]; messages = [system, *trimmed]
AppendUser(c, r) ==
  LET s == Sid(r)
      S1 == session_history(s)
      o == S1[s]
      h1 == heap[o] \o <<Turn("user", r.message)>>
  IN /\ SESSIONS' = S1
     /\ heap' = [heap EXCEPT ![o] = h1]
     /\ hist' = [hist EXCEPT ![c] = o]
     /\ messages' = [messages EXCEPT ![c] = Context(Trim(h1))]

\* mutant of AppendAssistant: the turn is appended to the list the store holds
\* at that moment, not to the local hist
AppendAssistantToStored(c, text, keep) ==
  LET s == req[c].sid
      h2 == Content(s) \o <<Turn("assistant", text)>>
      n == Fresh(SESSIONS, hist)
      S1 == [SESSIONS EXCEPT ![s] = n]
      h1 == IF keep THEN hist ELSE [hist EXCEPT ![c] = NoObj]
  IN /\ SESSIONS' = S1
     /\ hist' = h1
     /\ heap' = Collect([heap EXCEPT ![n] = Trim(h2)], S1, h1)

\* hist.append(assistant turn); SESSIONS[sid] = hist[-MAX_HISTORY_MESSAGES:]
\* keep: whether the local hist outlives the step
AppendAssistant(c, text, keep) ==
  LET s == req[c].sid
      o == hist[c]
      h2 == heap[o] \o <<Turn("assistant", text)>>
      n == Fresh(SESSIONS, hist)
      S1 == [SESSIONS EXCEPT ![s] = n]
      h1 == IF keep THEN hist ELSE [hist EXCEPT ![c] = NoObj]
  IN /\ SESSIONS' = S1
     /\ hist' = h1
     /\ heap' = Collect([heap EXCEPT ![o] = h2, ![n] = Trim(h2)], S1, h1)

\* the local hist goes out of scope, the store is not written
DropHist(c) ==
  LET h1 == [hist EXCEPT ![c] = NoObj]
  IN /\ hist' = h1
     /\ heap' = Collect(heap, SESSIONS, h1)
     /\ SESSIONS' = SESSIONS

\* the response is over: the request, its locals and its stream are gone
Release(c) ==
  /\ pc' = [pc EXCEPT ![c] = "idle"]
  /\ req' = [req EXCEPT ![c] = NoReq]
  /\ messages' = [messages EXCEPT ![c] = <<>>]
  /\ reply_parts' = [reply_parts EXCEPT ![c] = <<>>]
  /\ before' = [before EXCEPT ![c] = <<>>]
  /\ events' = [events EXCEPT ![c] = <<>>]
  /\ reply' = [reply EXCEPT ![c] = <<>>]
  /\ upCalls' = [upCalls EXCEPT ![c] = 0]
  /\ upContext' = [upContext EXCEPT ![c] = <<>>]
  /\ received' = [received EXCEPT ![c] = <<>>]
  /\ upRaised' = [upRaised EXCEPT ![c] = NoErr]
  /\ finalized' = [finalized EXCEPT ![c] = 0]

\* the server is done with a request that returned or whose stream was closed
Recycle(c) ==
  /\ pc[c] \in Over
  /\ Release(c)
  /\ UNCHANGED <<apiKey, store, hist, log, nops>>

\* mutant of reset: clears nothing, only makes sure the session has a list
resetKeepsTurns(r) ==
  /\ nops < MaxOps
  /\ LET s == Sid(r)
     IN /\ SESSIONS' = session_history(s)
        /\ heap' = heap
        /\ log' = Push([Other("reset") EXCEPT !.sid = s, !.before = Content(s)])
  /\ nops' = nops + 1
  /\ UNCHANGED <<apiKey, pc, locals, outputs, upstream, finalized>>

\* mutant of reset: SESSIONS.clear() and then the new empty list
resetClearsAll(r) ==
  /\ nops < MaxOps
  /\ LET s == Sid(r)
         n == Fresh(SESSIONS, hist)
         S1 == [t \in Sids |-> IF t = s THEN n ELSE NoObj]
     IN /\ SESSIONS' = S1
        /\ heap' = Collect([heap EXCEPT ![n] = <<>>], S1, hist)
        /\ log' = Push([Other("reset") EXCEPT !.sid = s, !.before = Content(s)])
  /\ nops' = nops + 1
  /\ UNCHANGED <<apiKey, pc, locals, outputs, upstream, finalized>>

\* POST /reset, lines 79-82
reset(r) ==
  /\ nops < MaxOps
  /\ LET s == Sid(r)
         n == Fresh(SESSIONS, hist)
         S1 == [SESSIONS EXCEPT ![s] = n]
     IN /\ SESSIONS' = S1
        /\ heap' = Collect([heap EXCEPT ![n] = <<>>], S1, hist)
        /\ log' = Push([Other("reset") EXCEPT !.sid = s, !.before = Content(s)])
  /\ nops' = nops + 1
  /\ UNCHANGED <<apiKey, pc, locals, outputs, upstream, finalized>>

\* mutant of ChatNoKey: the credential check of line 87 is missing
ChatNoKeyCallsUpstream(c, r) ==
  /\ ~apiKey /\ pc[c] = "idle" /\ nops < MaxOps
  /\ AppendUser(c, r)
  /\ Accept(c, r)
  /\ upCalls' = [upCalls EXCEPT ![c] = @ + 1]
  /\ upContext' = [upContext EXCEPT ![c] = messages'[c]]
  /\ pc' = [pc EXCEPT ![c] = "chat_wait"]
  /\ UNCHANGED <<apiKey, reply_parts, outputs, received, upRaised, finalized, log>>

\* POST /chat without a credential, lines 87-88
ChatNoKey(c, r) ==
  /\ ~apiKey /\ pc[c] = "idle" /\ nops < MaxOps
  /\ Accept(c, r)
  /\ reply' = [reply EXCEPT ![c] = MissingKeyReply]
  /\ pc' = [pc EXCEPT ![c] = "returned"]
  /\ UNCHANGED <<apiKey, store, hist, messages, reply_parts, events, upstream, finalized>>
  /\ log' = Push(Rec("chat", Local(r), MissingKeyReply, Content(Sid(r))))

\* POST /chat up to the upstream call, lines 90-104
ChatCall(c, r) ==
  /\ apiKey /\ pc[c] = "idle" /\ nops < MaxOps
  /\ AppendUser(c, r)
  /\ Accept(c, r)
  /\ upCalls' = [upCalls EXCEPT ![c] = @ + 1]
  /\ upContext' = [upContext EXCEPT ![c] = messages'[c]]
  /\ pc' = [pc EXCEPT ![c] = "chat_wait"]
  /\ UNCHANGED <<apiKey, reply_parts, outputs, received, upRaised, finalized, log>>

\* lines 109-111
ChatFinish(c, text, e) ==
  /\ upRaised' = [upRaised EXCEPT ![c] = e]
  /\ AppendAssistant(c, text, FALSE)
  /\ reply' = [reply EXCEPT ![c] = text]
  /\ pc' = [pc EXCEPT ![c] = "returned"]
  /\ log' = Push(Rec("chat", req[c], text, before[c]))
  /\ UNCHANGED <<apiKey, req, messages, reply_parts, before, events, upCalls, upContext,
                 received, finalized, nops>>

\* the upstream answers: line 105, then 109-111
ChatUpstreamOk(c, raw) ==
  /\ pc[c] = "chat_wait"
  /\ ChatFinish(c, Strip(raw), NoErr)

\* mutant of ChatUpstreamFail: the fallback reply is returned but not stored
ChatUpstreamFailNotStored(c, e) ==
  /\ pc[c] = "chat_wait"
  /\ upRaised' = [upRaised EXCEPT ![c] = e]
  /\ DropHist(c)
  /\ reply' = [reply EXCEPT ![c] = Fallback(e)]
  /\ pc' = [pc EXCEPT ![c] = "returned"]
  /\ log' = Push(Rec("chat", req[c], Fallback(e), before[c]))
  /\ UNCHANGED <<apiKey, req, messages, reply_parts, before, events, upCalls, upContext,
                 received, finalized, nops>>

\* the upstream fails (error, timeout, malformed response): line 107, then 109-111
ChatUpstreamFail(c, e) ==
  /\ pc[c] = "chat_wait"
  /\ ChatFinish(c, Fallback(e), e)


\* ---------------------------------------------------------------- streaming
WARNING_FRAME == Frame(MissingKeyReply)

Emit(c, frame) == events' = [events EXCEPT ![c] = @ \o <<frame>>]

\* mutant of StreamNoKey: session_history(sid) is called before the credential
\* check
StreamNoKeyCreatesEntry(c, r) ==
  /\ ~apiKey /\ pc[c] = "idle" /\ nops < MaxOps
  /\ Accept(c, r)
  /\ SESSIONS' = session_history(Sid(r))
  /\ pc' = [pc EXCEPT ![c] = "err_created"]
  /\ UNCHANGED <<apiKey, heap, hist, messages, reply_parts, outputs, upstream, finalized, log>>

\* POST /chat_stream and POST /chat/stream without a credential, lines 123-127:
\* the response is returned with err_gen not yet started
StreamNoKey(c, r) ==
  /\ ~apiKey /\ pc[c] = "idle" /\ nops < MaxOps
  /\ Accept(c, r)
  /\ pc' = [pc EXCEPT ![c] = "err_created"]
  /\ UNCHANGED <<apiKey, store, hist, messages, reply_parts, outputs, upstream, finalized, log>>

\* the caller's next() on err_gen, lines 125-126
ErrGenNext(c) ==
  /\ \/ /\ pc[c] = "err_created"
        /\ Emit(c, WARNING_FRAME)
        /\ pc' = [pc EXCEPT ![c] = "err_warning"]
        /\ UNCHANGED <<log, locals, reply, upstream, finalized>>
     \/ /\ pc[c] = "err_warning"
        /\ Emit(c, DONE)
        /\ pc' = [pc EXCEPT ![c] = "err_done"]
        /\ UNCHANGED <<log, locals, reply, upstream, finalized>>
     \/ /\ pc[c] = "err_done"
        /\ Release(c)
        /\ log' = Push(Other("stream"))
        /\ hist' = hist
  /\ UNCHANGED <<apiKey, store, nops>>

\* POST /chat_stream and POST /chat/stream with a credential, lines 129-135 and
\* 179: the response is returned with gen not yet started
StreamBegin(c, r) ==
  /\ apiKey /\ pc[c] = "idle" /\ nops < MaxOps
  /\ AppendUser(c, r)
  /\ Accept(c, r)
  /\ pc' = [pc EXCEPT ![c] = "gen_created"]
  /\ UNCHANGED <<apiKey, reply_parts, outputs, upstream, finalized, log>>

\* the caller's first next() on gen, lines 138-142
GenStart(c) ==
  /\ pc[c] = "gen_created"
  /\ Emit(c, HEARTBEAT)
  /\ pc' = [pc EXCEPT ![c] = "at_heartbeat"]
  /\ UNCHANGED <<apiKey, store, locals, reply, upstream, finalized, log, nops>>

\* the caller's next() after the heartbeat: ChatCompletion.create(stream=True)
\* returns the stream, lines 145-155
StreamCreateOk(c) ==
  /\ pc[c] = "at_heartbeat"
  /\ upCalls' = [upCalls EXCEPT ![c] = @ + 1]
  /\ upContext' = [upContext EXCEPT ![c] = messages[c]]
  /\ pc' = [pc EXCEPT ![c] = "streaming"]
  /\ UNCHANGED <<apiKey, store, locals, outputs, received, upRaised, finalized, log, nops>>

\* mutant of StreamCreateFail: the error is caught but no event reports it
StreamCreateFailSilent(c, e) ==
  /\ pc[c] = "at_heartbeat"
  /\ upCalls' = [upCalls EXCEPT ![c] = @ + 1]
  /\ upContext' = [upContext EXCEPT ![c] = messages[c]]
  /\ upRaised' = [upRaised EXCEPT ![c] = e]
  /\ pc' = [pc EXCEPT ![c] = "at_error"]
  /\ UNCHANGED <<apiKey, store, locals, outputs, received, finalized, log, nops>>

\* the same next() when create raises: lines 145, 170-171
StreamCreateFail(c, e) ==
  /\ pc[c] = "at_heartbeat"
  /\ upCalls' = [upCalls EXCEPT ![c] = @ + 1]
  /\ upContext' = [upContext EXCEPT ![c] = messages[c]]
  /\ upRaised' = [upRaised EXCEPT ![c] = e]
  /\ Emit(c, Frame(Fallback(e)))
  /\ pc' = [pc EXCEPT ![c] = "at_error"]
  /\ UNCHANGED <<apiKey, store, locals, reply, received, finalized, log, nops>>

\* the upstream delivers a chunk to the for loop, lines 155-161
UpstreamChunk(c, chunk) ==
  /\ pc[c] = "streaming"
  /\ Len(received[c]) < MaxFrags
  /\ received' = [received EXCEPT ![c] = @ \o <<chunk>>]
  /\ IF Truthy(chunk)
       THEN /\ reply_parts' = [reply_parts EXCEPT ![c] = @ \o <<chunk[1]>>]
            /\ Emit(c, Frame(chunk[1]))
            /\ pc' = [pc EXCEPT ![c] = "at_token"]
       ELSE UNCHANGED <<reply_parts, events, pc>>
  /\ UNCHANGED <<apiKey, store, req, hist, messages, before, reply, upCalls, upContext,
                 upRaised, finalized, log, nops>>

\* the caller's next() after a token frame: the loop asks for the next chunk
GenNext(c) ==
  /\ pc[c] = "at_token"
  /\ pc' = [pc EXCEPT ![c] = "streaming"]
  /\ UNCHANGED <<apiKey, store, locals, outputs, upstream, finalized, log, nops>>

\* mutant of Finalize: "".join(reply_parts) without .strip()
FinalizeUnstripped(c, keep) ==
  /\ finalized' = [finalized EXCEPT ![c] = @ + 1]
  /\ LET full == Join(reply_parts[c])
     IN IF full # <<>> THEN AppendAssistant(c, full, keep)
        ELSE IF keep THEN UNCHANGED <<store, hist>> ELSE DropHist(c)

\* the finally block up to its yield, lines 173-176
\* keep: whether gen stays suspended at the yield of line 177
Finalize(c, keep) ==
  /\ finalized' = [finalized EXCEPT ![c] = @ + 1]
  /\ LET full == Strip(Join(reply_parts[c]))
     IN IF full # <<>> THEN AppendAssistant(c, full, keep)
        ELSE IF keep THEN UNCHANGED <<store, hist>> ELSE DropHist(c)

\* the upstream stream ends: the loop exits, lines 172-177
UpstreamEnd(c) ==
  /\ pc[c] = "streaming"
  /\ Finalize(c, TRUE)
  /\ Emit(c, DONE)
  /\ pc' = [pc EXCEPT ![c] = "at_done"]
  /\ UNCHANGED <<apiKey, req, messages, reply_parts, before, reply, upstream, log, nops>>

\* mutant of UpstreamRaise: nothing catches the error, gen dies with it
UpstreamRaiseEscapes(c, e) ==
  /\ pc[c] = "streaming"
  /\ upRaised' = [upRaised EXCEPT ![c] = e]
  /\ DropHist(c)
  /\ pc' = [pc EXCEPT ![c] = "closed"]
  /\ UNCHANGED <<apiKey, req, messages, reply_parts, before, outputs, upCalls, upContext,
                 received, finalized, log, nops>>

\* mutant of UpstreamRaise: the error text is also added to reply_parts
UpstreamRaiseKeepsError(c, e) ==
  /\ pc[c] = "streaming"
  /\ upRaised' = [upRaised EXCEPT ![c] = e]
  /\ Emit(c, Frame(Fallback(e)))
  /\ reply_parts' = [reply_parts EXCEPT ![c] = @ \o <<Fallback(e)>>]
  /\ pc' = [pc EXCEPT ![c] = "at_error"]
  /\ UNCHANGED <<apiKey, store, req, hist, messages, before, reply, upCalls, upContext,
                 received, finalized, log, nops>>

\* the upstream raises inside the loop: lines 155, 170-171
UpstreamRaise(c, e) ==
  /\ pc[c] = "streaming"
  /\ upRaised' = [upRaised EXCEPT ![c] = e]
  /\ Emit(c, Frame(Fallback(e)))
  /\ pc' = [pc EXCEPT ![c] = "at_error"]
  /\ UNCHANGED <<apiKey, store, locals, reply, upCalls, upContext, received, finalized,
                 log, nops>>

\* the caller's next() after the error frame, lines 172-177
ErrorNext(c) ==
  /\ pc[c] = "at_error"
  /\ Finalize(c, TRUE)
  /\ Emit(c, DONE)
  /\ pc' = [pc EXCEPT ![c] = "at_done"]
  /\ UNCHANGED <<apiKey, req, messages, reply_parts, before, reply, upstream, log, nops>>

\* the caller's next() after the end marker: gen returns
GenReturn(c) ==
  /\ pc[c] = "at_done"
  /\ DropHist(c)
  /\ log' = Push(Other("stream"))
  /\ Release(c)
  /\ UNCHANGED <<apiKey, nops>>

\* the caller goes away and the suspended generator is closed: GeneratorExit is
\* raised at the yield it is suspended at. It is not an Exception, so line 170
\* does not catch it; the finally block runs only if that yield is inside the
\* try statement, and the frame it yields is discarded.
Disconnect(c) ==
  /\ \/ /\ pc[c] \in {"at_token", "at_error"}
        /\ Finalize(c, FALSE)
     \/ /\ pc[c] \in {"gen_created", "at_heartbeat", "at_done"}
        /\ DropHist(c)
        /\ finalized' = finalized
     \/ /\ pc[c] \in {"err_created", "err_warning", "err_done"}
        /\ UNCHANGED <<store, hist, finalized>>
  /\ pc' = [pc EXCEPT ![c] = "closed"]
  /\ log' = Push(Other("stream"))
  /\ UNCHANGED <<apiKey, req, messages, reply_parts, before, outputs, upstream, nops>>


\* ---------------------------------------------------------------- specifications
Reqs == [message : Msgs, session_id : ReqSids]
StreamReqs == [message : StreamMsgs, session_id : ReqSids]
ResetReqs == [message : {<<>>}, session_id : ReqSids]

\* a request arrives
Arrive(c) ==
  \/ \E r \in Reqs : ChatNoKey(c, r)
  \/ \E r \in Reqs : ChatCall(c, r)
  \/ \E r \in StreamReqs : StreamNoKey(c, r)
  \/ \E r \in StreamReqs : StreamBegin(c, r)

\* a request in flight moves on
Step(c) ==
  \/ \E raw \in RawReplies : ChatUpstreamOk(c, raw)
  \/ \E e \in Errs : ChatUpstreamFail(c, e)
  \/ ErrGenNext(c)
  \/ GenStart(c)
  \/ StreamCreateOk(c)
  \/ \E e \in Errs : StreamCreateFail(c, e)
  \/ \E chunk \in Chunks : UpstreamChunk(c, chunk)
  \/ GenNext(c)
  \/ UpstreamEnd(c)
  \/ \E e \in Errs : UpstreamRaise(c, e)
  \/ ErrorNext(c)
  \/ GenReturn(c)
  \/ Recycle(c)

Quiet == \A c \in Calls : pc[c] = "idle"

\* /chat and /chat_stream calls follow one another; a /reset may come at any
\* time, also while a call is in flight
Next ==
  \/ Quiet /\ Arrive(1)
  \/ \E r \in ResetReqs : reset(r)
  \/ Step(1)
  \/ Disconnect(1)

Spec == Init /\ [][Next]_vars

\* the caller of a stream keeps reading: no stream is closed early
NextLive ==
  \/ Quiet /\ nops < MaxLiveOps /\ Arrive(1)
  \/ nops < MaxLiveOps /\ \E r \in ResetReqs : reset(r)
  \/ Step(1)

\* the caller keeps calling next(), the upstream stream ends or raises, and
\* the server's threads keep running
LiveSpec == Init /\ [][NextLive]_vars /\ WF_vars(Step(1))


\* chunks whose text holds line breaks: "a", "a\nb", "a\n\nb", "a\n", and one
\* without content
WireChunks ==
  {<<>>, << <<"a">> >>, << <<"a", "\n", "b">> >>, << <<"a", "\n", "\n", "b">> >>,
   << <<"a", "\n">> >>}

InitWire == Init /\ apiKey

\* streaming calls with a credential, one after the other, read to the end
NextWire ==
  \/ Quiet /\ \E r \in StreamReqs : StreamBegin(1, r)
  \/ GenStart(1)
  \/ StreamCreateOk(1)
  \/ \E chunk \in WireChunks : UpstreamChunk(1, chunk)
  \/ GenNext(1)
  \/ UpstreamEnd(1)
  \/ GenReturn(1)

WireSpec == InitWire /\ [][NextWire]_vars


InitPool == Init /\ apiKey

\* /chat calls are served by a pool of threads: a call may arrive, and a
\* /reset may run, while other calls wait for the upstream
NextPool ==
  \/ \E c \in Calls : \E r \in Reqs : ChatCall(c, r)
  \/ \E c \in Calls : \E raw \in RawReplies : ChatUpstreamOk(c, raw)
  \/ \E c \in Calls : \E e \in Errs : ChatUpstreamFail(c, e)
  \/ \E c \in Calls : Recycle(c)
  \/ \E r \in ResetReqs : reset(r)

PoolSpec == InitPool /\ [][NextPool]_vars


\* /chat calls and resets with a credential, one after the other
NextChat ==
  \/ Quiet /\ \E r \in Reqs : ChatCall(1, r)
  \/ \E raw \in RawReplies : ChatUpstreamOk(1, raw)
  \/ \E e \in Errs : ChatUpstreamFail(1, e)
  \/ Recycle(1)
  \/ Quiet /\ \E r \in ResetReqs : reset(r)

ChatSpec == InitPool /\ [][NextChat]_vars


\* ---------------------------------------------------------------- properties
H == MAX_HISTORY_MESSAGES

Newest == log[Len(log)]

\* C1: when no call is in flight, after any sequence of completed /chat and
\* /chat_stream calls and resets, no session stores more than H turns.
C1_StoredAtMostH == Quiet => \A s \in Sids : Len(Content(s)) <= H

\* C2: right after a /reset of a session, a read of that session's history
\* yields the empty sequence, whatever the session held and also when the id
\* was never seen (reset has no precondition on the store).
C2_ResetEmpties == [][\A r \in ResetReqs : reset(r) => Content(Sid(r))' = <<>>]_vars

\* a session that held turns was reset and now reads empty
C2_ResetOfNonEmpty ==
  /\ log # <<>>
  /\ Newest.op = "reset"
  /\ Newest.before # <<>>
  /\ Content(Newest.sid) = <<>>

TwoChats ==
  /\ apiKey
  /\ Len(log) = 2
  /\ log[1].op = "chat" /\ log[2].op = "chat"
  /\ log[1].sid = log[2].sid
  /\ pc[1] \in {"returned", "idle"}

\* C3: after two /chat calls in a row on one session, with messages A then B,
\* the session stores the last H turns of (what it stored before the first
\* call) ++ [user:A, assistant:replyA, user:B, assistant:replyB], the replies
\* being the ones returned to the caller.
C3_TwoSequentialChats ==
  TwoChats =>
    Content(log[2].sid) =
      LastN(log[1].before \o
              << Turn("user", log[1].message), Turn("assistant", log[1].reply),
                 Turn("user", log[2].message), Turn("assistant", log[2].reply) >>, H)

\* two chats in a row on a session that already held turns: the front is dropped
C3_TwoChatsTruncated ==
  /\ TwoChats
  /\ log[1].before # <<>>
  /\ log[1].message # log[2].message
  /\ log[1].reply # log[2].reply
  /\ pc[1] = "returned"
  /\ reply[1] = log[2].reply


\* the texts of the chunks that carry content: the fragments the upstream sent
RECURSIVE Fragments(_)
Fragments(rcv) ==
  IF rcv = <<>> THEN <<>>
  ELSE (IF Head(rcv) = <<>> THEN <<>> ELSE <<Head(rcv)[1]>>) \o Fragments(Tail(rcv))

\* the fragments that are not the empty string
NonEmpty(frags) == SelectSeq(frags, LAMBDA t : t # <<>>)

Frames(frags) == [i \in 1 .. Len(frags) |-> Frame(frags[i])]

\* the turns a reader gets for session s after the step
ContentAfter(s) == IF SESSIONS'[s] = NoObj THEN <<>> ELSE heap'[SESSIONS'[s]]

UserTurn(c) == Turn("user", req[c].message)

\* the finally block of gen runs in this step
FinalizeStep(c) == finalized'[c] = finalized[c] + 1

\* C4: in a streaming call with a credential the heartbeat is the first event
\* and precedes the upstream call; every fragment received is emitted as one
\* event, in order, before the next one is requested; exactly one end marker
\* is emitted, after all fragment events.
C4_StreamEvents ==
  \A c \in Calls : apiKey =>
    /\ pc[c] = "gen_created" => events[c] = <<>> /\ upCalls[c] = 0
    /\ pc[c] = "at_heartbeat" => events[c] = <<HEARTBEAT>> /\ upCalls[c] = 0
    /\ pc[c] \in {"streaming", "at_token"} =>
         events[c] = <<HEARTBEAT>> \o Frames(Fragments(received[c]))
    /\ pc[c] = "at_done" /\ upRaised[c] = NoErr =>
         events[c] = <<HEARTBEAT>> \o Frames(Fragments(received[c])) \o <<DONE>>

\* C5 as stated: the text persisted by the finally block is exactly the
\* concatenation of the fragments received; it is appended iff non-empty.
C5_ExactConcatenation ==
  [][\A c \in Calls : FinalizeStep(c) =>
       LET s == req[c].sid
           text == Join(Fragments(received[c]))
       IN IF text # <<>>
            THEN ContentAfter(s) =
                   LastN(before[c] \o <<UserTurn(c), Turn("assistant", text)>>, H)
            ELSE ContentAfter(s) = Content(s)]_vars

\* C5 amended: the text persisted by the finally block is the concatenation,
\* in order, of the fragments received, with leading and trailing whitespace
\* removed; if that text is non-empty the assistant turn is appended after the
\* call's user turn and the sequence re-truncated to H, else the store is
\* left as it is.
C5_StrippedConcatenation ==
  [][\A c \in Calls : FinalizeStep(c) =>
       LET s == req[c].sid
           text == Strip(Join(Fragments(received[c])))
       IN IF text # <<>>
            THEN ContentAfter(s) =
                   LastN(before[c] \o <<UserTurn(c), Turn("assistant", text)>>, H)
            ELSE ContentAfter(s) = Content(s)]_vars

\* a stream ended and its reply was persisted without its trailing whitespace
C5_PersistedStripped ==
  /\ pc[1] = "at_done"
  /\ finalized[1] = 1
  /\ Len(Fragments(received[1])) = 2
  /\ Strip(Join(Fragments(received[1]))) # Join(Fragments(received[1]))
  /\ Content(req[1].sid) # <<>>
  /\ Content(req[1].sid)[Len(Content(req[1].sid))] =
       Turn("assistant", Strip(Join(Fragments(received[1]))))

\* the finally block runs after the upstream raised with fragments emitted
FinalizeAfterRaise(c) ==
  /\ FinalizeStep(c)
  /\ upRaised[c] # NoErr
  /\ NonEmpty(Fragments(received[c])) # <<>>

\* C6 as stated: after a mid-stream failure the assistant turn, if one is
\* stored, is exactly the fragments received before the failure.
C6_ExactPartialReply ==
  [][\A c \in Calls : FinalizeAfterRaise(c) =>
       LET s == req[c].sid
       IN ContentAfter(s) # Content(s) =>
            ContentAfter(s)[Len(ContentAfter(s))] =
              Turn("assistant", Join(Fragments(received[c])))]_vars

\* C6 amended: if the upstream raises after k >= 1 fragments were emitted, the
\* stream goes on to emit the end marker exactly once (heartbeat, the k
\* fragments, the error event, the end marker), and the assistant turn, if
\* one is stored, is the concatenation of those k fragments with leading and
\* trailing whitespace removed, and nothing else.
C6_PartialReply ==
  [][\A c \in Calls : FinalizeAfterRaise(c) =>
       LET s == req[c].sid
       IN /\ ContentAfter(s) # Content(s) =>
               ContentAfter(s)[Len(ContentAfter(s))] =
                 Turn("assistant", Strip(Join(Fragments(received[c]))))
          /\ pc'[c] = "at_done" =>
               events'[c] = <<HEARTBEAT>> \o Frames(NonEmpty(Fragments(received[c])))
                              \o <<Frame(Fallback(upRaised[c])), DONE>>]_vars

\* the upstream raised after one fragment and that fragment alone is stored
C6_RaisedAfterFragment ==
  /\ pc[1] = "at_done"
  /\ upRaised[1] # NoErr
  /\ Len(received[1]) >= 1
  /\ Content(req[1].sid) # <<>>
  /\ Content(req[1].sid)[Len(Content(req[1].sid))] =
       Turn("assistant", Strip(Join(Fragments(received[1]))))
  /\ events[1][Len(events[1])] = DONE

\* C7: without a credential no call invokes the upstream; /chat returns the
\* fixed warning reply and /chat_stream emits one warning fragment and then
\* one end marker.
C7_NoCredential ==
  ~apiKey =>
    \A c \in Calls :
      /\ upCalls[c] = 0
      /\ pc[c] \in {"idle", "returned", "err_created", "err_warning", "err_done", "closed"}
      /\ pc[c] = "returned" => reply[c] = MissingKeyReply
      /\ pc[c] = "err_created" => events[c] = <<>>
      /\ pc[c] = "err_warning" => events[c] = <<WARNING_FRAME>>
      /\ pc[c] = "err_done" => events[c] = <<WARNING_FRAME, DONE>>

\* a stream without a credential has emitted its two events
C7_WarningStreamed ==
  /\ ~apiKey
  /\ pc[1] = "err_done"
  /\ Len(events[1]) = 2
  /\ upCalls[1] = 0

\* C8: when the upstream fails, /chat returns the fallback text carrying the
\* error detail, and that text is the assistant turn appended after the
\* call's user turn, the sequence being re-truncated to H and written back.
C8_ChatFallback ==
  [][\A c \in Calls :
       (pc[c] = "chat_wait" /\ pc'[c] # "chat_wait") =>
          /\ pc'[c] = "returned"
          /\ upRaised'[c] # NoErr =>
               /\ reply'[c] = Fallback(upRaised'[c])
               /\ ContentAfter(req[c].sid) =
                    LastN(before[c] \o <<UserTurn(c), Turn("assistant", reply'[c])>>, H)]_vars

\* a /chat call whose upstream failed returned, on a session that had to be cut
C8_FallbackReturned ==
  /\ pc[1] = "returned"
  /\ upRaised[1] # NoErr
  /\ reply[1] = Fallback(upRaised[1])
  /\ Len(before[1]) >= H - 1
  /\ Len(Content(req[1].sid)) = H

\* C10: for every streaming call whose generator has started, the finally
\* block has run exactly once when the stream is over, also when the caller
\* went away at any emitted event.
C10_FinalizeOnce ==
  \A c \in Calls : apiKey =>
    /\ pc[c] = "at_done" => finalized[c] = 1
    /\ pc[c] = "closed" /\ events[c] # <<>> => finalized[c] = 1
    /\ finalized[c] <= 1


\* C9: every streaming call whose caller keeps reading and whose upstream
\* stream is finite gets to the end marker as its last event: with or without
\* a credential, when the upstream fails on creation or after any number of
\* fragments, and when it delivers none.
C9_StreamReachesEnd ==
  \A c \in Calls :
    (pc[c] \in {"gen_created", "err_created"}) ~>
      (/\ pc[c] \in {"at_done", "err_done"}
       /\ events[c] # <<>>
       /\ events[c][Len(events[c])] = DONE)

\* the upstream failed on creation and the stream got to its end marker
C9_EndAfterCreateFailure ==
  /\ pc[1] = "at_done"
  /\ upRaised[1] # NoErr
  /\ received[1] = <<>>
  /\ events[1] = <<HEARTBEAT, Frame(Fallback(upRaised[1])), DONE>>

\* the chunk the upstream delivers to call c in this step
Delivered(c) == received'[c][Len(received'[c])]

\* C11: in a streaming call every chunk whose content is a string, the empty
\* string included, is forwarded to the caller as one event; only a chunk
\* whose content is absent is skipped.
C11_EmptyFragmentForwarded ==
  [][\A c \in Calls : Len(received'[c]) = Len(received[c]) + 1 =>
       IF Delivered(c) = <<>>
         THEN events'[c] = events[c]
         ELSE events'[c] = events[c] \o <<Frame(Delivered(c)[1])>>]_vars

\* C12: the context handed to the upstream by a /chat or /chat_stream call is
\* the system instruction followed by the last H turns of (the session's
\* sequence at call start ++ [user:message]): at most H non-system turns, the
\* new user message last, and [system, user:message] on a fresh session.
C12_UpstreamContext ==
  \A c \in Calls : upCalls[c] > 0 =>
    /\ upContext[c] =
         <<Turn("system", SYSTEM_PROMPT)>> \o LastN(before[c] \o <<UserTurn(c)>>, H)
    /\ Len(upContext[c]) <= H + 1
    /\ upContext[c][Len(upContext[c])] = UserTurn(c)
    /\ before[c] = <<>> => upContext[c] = <<Turn("system", SYSTEM_PROMPT), UserTurn(c)>>

\* a streaming call on a session that held H turns has called the upstream
\* with a context cut to H turns
C12_ContextTruncated ==
  /\ pc[1] = "streaming"
  /\ upCalls[1] = 1
  /\ Len(before[1]) = H
  /\ Len(upContext[1]) = H + 1
  /\ upContext[1][2] = before[1][2]

ErrorFrame(c) == Frame(Fallback(upRaised[c]))

\* the error events among the events call c has emitted
ErrorEvents(c) == SelectSeq(events[c], LAMBDA f : f = ErrorFrame(c))

\* C13: when the upstream raises in a streaming call, on creation or
\* mid-stream, exactly one error event is emitted, after every fragment event
\* already emitted and before the end marker; the finally block that follows
\* stores either nothing or the accumulated reply, never the error description.
C13_OneErrorEvent ==
  [][\A c \in Calls :
       /\ (upRaised[c] = NoErr /\ upRaised'[c] # NoErr /\ pc[c] \in {"at_heartbeat", "streaming"}) =>
            /\ events'[c] = events[c] \o <<Frame(Fallback(upRaised'[c]))>>
            /\ pc'[c] = "at_error"
            /\ UNCHANGED <<SESSIONS, heap>>
       /\ pc[c] = "at_error" =>
            /\ events[c] = <<HEARTBEAT>> \o Frames(NonEmpty(Fragments(received[c])))
                             \o <<ErrorFrame(c)>>
            /\ Len(ErrorEvents(c)) = 1
            /\ pc'[c] = "at_done" => events'[c] = events[c] \o <<DONE>>
            /\ FinalizeStep(c) =>
                 LET s == req[c].sid
                 IN \/ ContentAfter(s) = Content(s)
                    \/ /\ ContentAfter(s) =
                            LastN(heap[hist[c]] \o
                                    <<Turn("assistant", Strip(Join(reply_parts[c])))>>, H)
                       /\ Strip(Join(reply_parts[c])) # Fallback(upRaised[c])]_vars

\* the upstream raised after two fragments: both were emitted before the one
\* error event, the end marker came last and the stored reply has no error text
C13_ErrorAfterTwoFragments ==
  /\ pc[1] = "at_done"
  /\ upRaised[1] # NoErr
  /\ Len(NonEmpty(Fragments(received[1]))) = 2
  /\ Len(events[1]) = 5
  /\ events[1][4] = ErrorFrame(1)
  /\ events[1][5] = DONE
  /\ Content(req[1].sid)[Len(Content(req[1].sid))].role = "assistant"

\* C14: no session stores more than H turns in any reachable state, the states
\* inside an in-flight call between the append of the user turn and the
\* write-back included.
C14_NeverMoreThanH == \A s \in Sids : Len(Content(s)) <= H

\* the bytes the caller has read from call c's response body
Wire(c) == Join(events[c])

\* w.split("\n\n"), cur being the event read so far
RECURSIVE Split(_, _)
Split(w, cur) ==
  IF w = <<>> THEN (IF cur = <<>> THEN <<>> ELSE <<cur>>)
  ELSE IF Len(w) >= 2 /\ w[1] = "\n" /\ w[2] = "\n"
         THEN <<cur>> \o Split(SubSeq(w, 3, Len(w)), <<>>)
         ELSE Split(Tail(w), Append(cur, Head(w)))

IsComment(ev) == ev # <<>> /\ ev[1] = ": heartbeat"

IsEndMarker(ev) == ev = <<"data: ", "[DONE]">>

StripPrefix(ev) == IF ev # <<>> /\ ev[1] = "data: " THEN Tail(ev) ELSE ev

\* the fragments a caller decodes from the wire: the events between
\* terminators, comments and the end marker left out, without their prefix
Decode(w) ==
  LET data == SelectSeq(Split(w, <<>>), LAMBDA ev : ~IsComment(ev) /\ ~IsEndMarker(ev))
  IN [i \in 1 .. Len(data) |-> StripPrefix(data[i])]

\* C15: decoding the wire events of a stream gives back exactly the fragments
\* received from the upstream, also when a fragment holds line breaks or
\* blank lines.
C15_WireRoundTrip ==
  \A c \in Calls :
    (pc[c] \in {"streaming", "at_token", "at_done"} /\ upRaised[c] = NoErr) =>
      Decode(Wire(c)) = Fragments(received[c])

\* C16: calls on one session are not mutually excluded. A /chat call that
\* returns writes back the last H turns of its own local list with its reply
\* appended, whatever other calls and resets stored in the session since it
\* started; so a lost update is reachable (C16_LostUpdate).
C16_LastWriterWins ==
  [][\A c \in Calls :
       (pc[c] = "chat_wait" /\ pc'[c] = "returned") =>
          ContentAfter(req[c].sid) =
            LastN(heap[hist[c]] \o <<Turn("assistant", reply'[c])>>, H)]_vars

\* no call is in flight, the last two operations completed are /chat calls on
\* one session, and the assistant turn the first of them appended is not in
\* the stored sequence although at most two turns were appended after it
C16_LostUpdate ==
  /\ \A c \in Calls : pc[c] \in {"idle", "returned"}
  /\ Len(log) = 2
  /\ log[1].op = "chat" /\ log[2].op = "chat"
  /\ log[1].sid = log[2].sid
  /\ Len(Content(log[2].sid)) <= H
  /\ \A i \in 1 .. Len(Content(log[2].sid)) :
       Content(log[2].sid)[i] # Turn("assistant", log[1].reply)

\* the session a step of call c works on
Target(c) == IF req[c] = NoReq THEN req'[c].sid ELSE req[c].sid

\* C17: every operation on one session id leaves what every other session id
\* stores unchanged: the entry of another id is neither created, replaced,
\* appended to nor cut.
C17_OtherSessionsUntouched ==
  [][\A s \in Sids :
       (SESSIONS'[s] # SESSIONS[s] \/ ContentAfter(s) # Content(s)) =>
          \/ \E r \in ResetReqs : reset(r) /\ Sid(r) = s
          \/ \E c \in Calls : pc'[c] # pc[c] /\ Target(c) = s]_vars

\* a session that held turns was reset while another session held a user and
\* an assistant turn, and the other session still holds them
C17_ResetBesideFullSession ==
  /\ log # <<>>
  /\ Newest.op = "reset"
  /\ Newest.before # <<>>
  /\ \E s \in Sids : s # Newest.sid /\ Len(Content(s)) >= 2

\* a reset of the session of call c ran while c was in flight: the list c
\* holds is no longer the one the store holds
ResetSince(c) == hist[c] # NoObj /\ hist[c] # SESSIONS[req[c].sid]

\* the step in which call c writes its reply back, if it has one to write
WriteBackStep(c) ==
  \/ FinalizeStep(c)
  \/ pc[c] = "chat_wait" /\ pc'[c] = "returned"

\* C18: a reset is not undone by a call that started before it. When a call
\* finalizes after a /reset of its session ran, the session holds what it held
\* right before, with at most the call's assistant turn added: no turn that
\* was stored or appended before the reset comes back.
C18_ResetNotUndone ==
  [][\A c \in Calls : (WriteBackStep(c) /\ ResetSince(c)) =>
       LET s == req[c].sid
       IN \/ ContentAfter(s) = Content(s)
          \/ \E t \in {reply'[c], Strip(Join(reply_parts[c]))} :
               ContentAfter(s) = Content(s) \o <<Turn("assistant", t)>>]_vars

\* user, assistant, user, assistant, ...: even length, a user turn first
Alternates(h) ==
  /\ Len(h) % 2 = 0
  /\ \A i \in 1 .. Len(h) : h[i].role = (IF i % 2 = 1 THEN "user" ELSE "assistant")

\* C19: after any sequence of /chat calls and resets that do not overlap, with
\* a credential, every stored sequence has even length and alternates user,
\* assistant, starting with a user turn.
C19_Alternation ==
  (\A c \in Calls : pc[c] \in {"idle", "returned"}) => \A s \in Sids : Alternates(Content(s))

\* a third /chat call in a row on one session returned: the sequence was cut
\* to H turns and starts with a user turn
C19_CutKeepsPairs ==
  /\ pc[1] = "returned"
  /\ Len(before[1]) = H
  /\ Len(Content(req[1].sid)) = H
  /\ Content(req[1].sid)[1] = before[1][3]
  /\ Content(req[1].sid)[1].role = "user"

\* C20: without a credential, /chat and /chat_stream leave the store as it
\* is: no entry is created for the id and no turn is appended. Only a /reset
\* changes the store then.
C20_NoCredentialNoWrite ==
  [][~apiKey => \/ UNCHANGED <<SESSIONS, heap>>
                \/ \E r \in ResetReqs : reset(r)]_vars

\* without a credential a /chat call returned and a stream emitted its
\* warning, and the session they named has no entry
C20_NoEntryCreated ==
  /\ ~apiKey
  /\ log # <<>>
  /\ Newest.op = "chat"
  /\ pc[1] = "err_warning"
  /\ SESSIONS[Newest.sid] = NoObj
  /\ SESSIONS[req[1].sid] = NoObj

====
